---- MODULE Spec2Model ----
(***************************************************************************)
(* The API gateway of the Emby recommendation engine as a state machine.   *)
(*                                                                         *)
(* Two application objects exist in the repository: the one create_app     *)
(* builds (api_gateway/app.py: middleware.py plus gateway/router.py and    *)
(* gateway/proxy.py) and the stand-alone one of api_gateway/main.py (its   *)
(* own SERVICES table and routes, no middleware).  A server process runs   *)
(* one of them; every inbound request is an asyncio task whose steps, the  *)
(* code between two awaits, are the actions below.                         *)
(*                                                                         *)
(* Header lists and Python dicts are sequences of <<name, value>> pairs    *)
(* (a dict keeps insertion order and holds each key once).                 *)
(*                                                                         *)
(* The persistence layer (shared/database.py, shared/models) is not wired  *)
(* into the gateway: the scripts that use it are processes of their own,   *)
(* one thread calling the operations of the global db_manager in turn.     *)
(* It is the second state machine of this module (DbSpec).  A process     *)
(* whose threads share db_manager (FastAPI runs a def dependency such as   *)
(* get_db in a thread pool) is the third (ThreadSpec): there a step is one *)
(* statement of initialize or get_session.                                 *)
(***************************************************************************)
EXTENDS Integers, Sequences, FiniteSets, TLC

VARIABLES
    app,            \* the application object this process serves: "app" or "main"
    scenario,       \* the traffic explored in this run (see Scenarios)
    pc,             \* pc[r]: where the task of request r stands
    inbound,        \* inbound[r]: the request as received (starlette Request)
    cid,            \* cid[r]: request.state.correlation_id
    target,         \* target[r]: the request handed to httpx for the backend
    sent,           \* sent[r]: backend requests issued by proxy_request for r
    backend,        \* backend[r]: how the forward attempt ended
    result,         \* result[r]: what the route handler returned or raised
    resp,           \* resp[r]: the response the HTTP client receives
    replies,        \* replies[r]: responses delivered for r
    health_status,  \* health_status[r]: the dict get_services_health fills
    probe_i,        \* probe_i[r]: position of the loop over SERVICES.items()
    probe_log,      \* probe_log[r]: the probes issued so far and how each ended
    environ,        \* os.environ of the process, the POSTGRES_* names in it
    db_manager,     \* the global DatabaseManager: engine, SessionLocal, _initialized
    tables,         \* whether the tables of Base.metadata exist in the database
    store,          \* the committed rows of users and media_items
    scope,          \* the block in which the caller holds a session, if one is open
    open_sessions,  \* sessions handed out for a block and not closed yet
    last_call,      \* the last operation called on db_manager and how it ended
    threads,        \* threads[t]: where thread t stands in initialize or get_session
    made            \* how many engines and session factories were created so far

gwvars == <<app, scenario, pc, inbound, cid, target, sent, backend, result, resp,
            replies, health_status, probe_i, probe_log>>

dbvars == <<environ, db_manager, tables, store, scope, open_sessions, last_call>>

thvars == <<threads, made>>

vars == <<app, scenario, pc, inbound, cid, target, sent, backend, result, resp,
          replies, health_status, probe_i, probe_log,
          environ, db_manager, tables, store, scope, open_sessions, last_call,
          threads, made>>

(***************************************************************************)
(* Bounds of the exploration.                                              *)
(***************************************************************************)
MaxHeaders == 2     \* longest header list a client or a backend sends
MaxInFlight == 2    \* requests that may be in flight at the same time
MaxThreads == 2     \* threads that call the global db_manager

(***************************************************************************)
(* Dicts and header lists.                                                 *)
(***************************************************************************)
Keys(d) == {d[i][1] : i \in DOMAIN d}

Get(d, k) == d[CHOOSE i \in DOMAIN d : d[i][1] = k][2]

\* d[k] = v of a Python dict or of starlette's MutableHeaders: the value of an
\* existing key is replaced in place, a new key is appended.
DictSet(d, k, v) ==
    IF k \in Keys(d)
    THEN [i \in DOMAIN d |-> IF d[i][1] = k THEN <<k, v>> ELSE d[i]]
    ELSE Append(d, <<k, v>>)

\* The values a header list holds for one name, in order.
RECURSIVE ValuesOf(_, _)
ValuesOf(h, k) ==
    IF h = <<>> THEN <<>>
    ELSE IF Head(h)[1] = k THEN <<Head(h)[2]>> \o ValuesOf(Tail(h), k)
    ELSE ValuesOf(Tail(h), k)

RECURSIVE Join(_)
Join(vs) ==
    IF Len(vs) = 1 THEN vs[1] ELSE vs[1] \o ", " \o Join(Tail(vs))

\* The header list without the later lines of a name already seen.
RECURSIVE FirstLines(_, _)
FirstLines(h, seen) ==
    IF h = <<>> THEN <<>>
    ELSE IF Head(h)[1] \in seen THEN FirstLines(Tail(h), seen)
    ELSE <<Head(h)>> \o FirstLines(Tail(h), seen \cup {Head(h)[1]})

\* dict(request.headers): starlette's Headers lists every line under keys() and
\* answers h[name] with the first line of that name.
StarletteDict(h) ==
    LET f == FirstLines(h, {})
    IN  [i \in DOMAIN f |-> <<f[i][1], ValuesOf(h, f[i][1])[1]>>]

\* dict(response.headers): httpx's Headers lists each name once and answers
\* h[name] with all the values of that name joined by ", ".
HttpxDict(h) ==
    LET f == FirstLines(h, {})
    IN  [i \in DOMAIN f |-> <<f[i][1], Join(ValuesOf(h, f[i][1]))>>]

\* All lists of at most n lines drawn from the set P.
RECURSIVE Lists(_, _)
Lists(P, n) ==
    IF n = 0 THEN {<<>>}
    ELSE LET S == Lists(P, n - 1)
         IN  S \cup {Append(s, p) : s \in S, p \in P}

(***************************************************************************)
(* Service discovery.  The URLs are the defaults os.getenv falls back to;   *)
(* the keys do not depend on the environment.                              *)
(***************************************************************************)
ProxySERVICES ==
    << <<"users", "http://user-service:8001">>,
       <<"content", "http://content-service:8002">>,
       <<"recommendations", "http://recommendation-service:8003">>,
       <<"external_data", "http://external-data-service:8004">> >>

MainSERVICES ==
    << <<"users", "http://user-service:8001">>,
       <<"content", "http://content-service:8002">>,
       <<"recommendations", "http://recommendation-service:8003">>,
       <<"external_data_service", "http://external-data-service:8004">> >>

Apps == {"app", "main"}

SERVICES(a) == IF a = "main" THEN MainSERVICES ELSE ProxySERVICES

(***************************************************************************)
(* Routes.  A proxy route is named by its prefix; each passes a literal    *)
(* service name to proxy_request.                                          *)
(***************************************************************************)
HealthRoute == "/health"
ServicesHealthRoute == "/api/v1/services/health"

RouterRoutes ==
    << <<"users", "users">>, <<"content", "content">>,
       <<"recommendations", "recommendations">>,
       <<"external_data", "external_data">> >>

MainRoutes ==
    << <<"users", "users">>, <<"content", "content">>,
       <<"recommendations", "recommendations">>,
       <<"external_data", "external_data">> >>

Routes(a) == IF a = "main" THEN MainRoutes ELSE RouterRoutes

Prefixes == {"users", "content", "recommendations", "external_data"}

Methods == {"GET", "POST", "PUT", "DELETE"}

\* The path of the URL a client asks for on a proxy route.
UrlPath(prefix, tail) == "/api/v1/" \o prefix \o "/" \o tail

(***************************************************************************)
(* Bodies and JSON.  A body is text; response.json() and the JSONResponse  *)
(* rendering (json.dumps with separators "," and ":") are given on the     *)
(* texts the clients and backends below use.                               *)
(***************************************************************************)
EmptyBody == ""
JsonDoc == "{\"id\":42}"
SpacedJsonDoc == "{\"id\": 42}"
NotJson == "<html>ok</html>"

EmptyDict == <<>>
IdDict == << <<"id", 42>> >>

\* response.json(): the parsed value, or the decoding error it raises.
ResponseJson(content) ==
    CASE content \in {JsonDoc, SpacedJsonDoc} -> [ok |-> TRUE, value |-> IdDict]
      [] content = "{}" -> [ok |-> TRUE, value |-> EmptyDict]
      [] OTHER -> [ok |-> FALSE, value |-> "JSONDecodeError"]

\* json.dumps of a dict whose values are strings.
RECURSIVE DumpsFlatItems(_)
DumpsFlatItems(d) ==
    IF d = <<>> THEN ""
    ELSE "\"" \o Head(d)[1] \o "\":\"" \o Head(d)[2] \o "\""
         \o (IF Tail(d) = <<>> THEN "" ELSE ",") \o DumpsFlatItems(Tail(d))

DumpsFlat(d) == "{" \o DumpsFlatItems(d) \o "}"

\* json.dumps of a dict whose values are dicts of strings.
RECURSIVE DumpsMapItems(_)
DumpsMapItems(d) ==
    IF d = <<>> THEN ""
    ELSE "\"" \o Head(d)[1] \o "\":" \o DumpsFlat(Head(d)[2])
         \o (IF Tail(d) = <<>> THEN "" ELSE ",") \o DumpsMapItems(Tail(d))

DumpsMap(d) == "{" \o DumpsMapItems(d) \o "}"

\* JSONResponse.render(content), for what response.json() can give.
Render(content) == IF content = EmptyDict THEN "{}" ELSE JsonDoc

ContentLength(body) == "len(" \o body \o ")"

\* starlette's Response.init_headers: the headers given, then content-length
\* and content-type unless the caller gave them.
InitHeaders(headers, body) ==
    LET withLength == IF "content-length" \in Keys(headers) THEN headers
                      ELSE Append(headers, <<"content-length", ContentLength(body)>>)
    IN  IF "content-type" \in Keys(withLength) THEN withLength
        ELSE Append(withLength, <<"content-type", "application/json">>)

JSONResponse(content, status_code, headers) ==
    [type |-> "JSONResponse", status_code |-> status_code,
     body |-> Render(content), headers |-> InitHeaders(headers, Render(content))]

HTTPException(status_code, detail) ==
    [type |-> "HTTPException", status_code |-> status_code, detail |-> detail]

NoResult == [type |-> "none"]
NoRequest == [kind |-> "none"]
NoOutcome == [kind |-> "none"]
NoResponse == [kind |-> "none"]

(***************************************************************************)
(* How a forward attempt can end: the backend's response, or an exception  *)
(* of httpx.  ReadTimeout and ConnectTimeout derive from TimeoutException. *)
(***************************************************************************)
TimeoutExceptions == {"ReadTimeout", "ConnectTimeout"}
TransportExceptions == TimeoutExceptions \cup {"ConnectError"}

Responded(status_code, content, headers) ==
    [kind |-> "response", status_code |-> status_code, content |-> content,
     headers |-> headers]

Raised(exc) == [kind |-> "raised", exc |-> exc]

(***************************************************************************)
(* proxy_request.                                                          *)
(***************************************************************************)
\* A mutant: the lookup of an unknown name falls back to the name as a host, and
\* the 404 is raised only after the request went out.
ProxyStartLate(a, service_name, path, q) ==
    LET known == service_name \in Keys(SERVICES(a))
        service_url == IF known THEN Get(SERVICES(a), service_name)
                       ELSE "http://" \o service_name
    IN  [raised |-> IF known THEN NoResult
                    ELSE HTTPException(404, "Service " \o service_name \o " not found"),
         request |-> [kind |-> "request", method |-> q.method,
                      url |-> service_url \o path,
                      headers |-> StarletteDict(q.headers), content |-> q.body]]

\* proxy_request up to its first suspension: the lookup, and the request it
\* hands to client.request.
ProxyStart(a, service_name, path, q) ==
    IF service_name \notin Keys(SERVICES(a))
    THEN [raised |-> HTTPException(404, "Service " \o service_name \o " not found"),
          request |-> NoRequest]
    ELSE LET service_url == Get(SERVICES(a), service_name)
             target_url == service_url \o path
         IN  [raised |-> NoResult,
              request |-> [kind |-> "request", method |-> q.method,
                           url |-> target_url,
                           headers |-> StarletteDict(q.headers),
                           content |-> q.body]]

\* A mutant: the two except clauses in the other order.
ProxyFinishBroadFirst(o) ==
    IF o.kind = "raised" THEN HTTPException(502, "Service unavailable")
    ELSE IF o.content = EmptyBody
    THEN JSONResponse(EmptyDict, o.status_code, HttpxDict(o.headers))
    ELSE IF ~ResponseJson(o.content).ok
    THEN HTTPException(502, "Service unavailable")
    ELSE JSONResponse(ResponseJson(o.content).value, o.status_code,
                      HttpxDict(o.headers))

\* proxy_request from the point client.request resolves: the try block's return
\* and its two except clauses.
ProxyFinish(o) ==
    IF o.kind = "raised"
    THEN IF o.exc \in TimeoutExceptions
         THEN HTTPException(504, "Service timeout")
         ELSE HTTPException(502, "Service unavailable")
    ELSE IF o.content = EmptyBody
    THEN JSONResponse(EmptyDict, o.status_code, HttpxDict(o.headers))
    ELSE IF ~ResponseJson(o.content).ok
    THEN HTTPException(502, "Service unavailable")
    ELSE JSONResponse(ResponseJson(o.content).value, o.status_code,
                      HttpxDict(o.headers))

(***************************************************************************)
(* get_services_health (gateway/proxy.py) and services_health (main.py):   *)
(* the same loop over SERVICES.items().                                    *)
(***************************************************************************)
\* A mutant: the except clause is missing, so a failed probe leaves no entry.
ProbeEntryNoExcept(status, service_name, o) ==
    IF o.kind = "raised" THEN status
    ELSE DictSet(status, service_name,
                 << <<"status", IF o.status_code = 200 THEN "healthy" ELSE "unhealthy">>,
                    <<"response_time", "elapsed">> >>)

\* One pass of the loop body once the probe has resolved with o.
ProbeEntry(status, service_name, o) ==
    IF o.kind = "raised"
    THEN DictSet(status, service_name,
                 << <<"status", "unhealthy">>, <<"error", o.exc>> >>)
    ELSE DictSet(status, service_name,
                 << <<"status", IF o.status_code = 200 THEN "healthy" ELSE "unhealthy">>,
                    <<"response_time", "elapsed">> >>)

HealthReport(status) == << <<"gateway", "healthy">>, <<"services", status>> >>

GatewayHealth == << <<"status", "healthy">>, <<"service", "api-gateway">> >>

DictResult(content) == [type |-> "dict", content |-> content]

(***************************************************************************)
(* What FastAPI makes of a handler's outcome, and the middleware of        *)
(* add_middleware on the way out (innermost first: CORS, trusted host,     *)
(* logging_middleware, rate_limiting_middleware).                          *)
(***************************************************************************)
Serialize(res) ==
    CASE res.type = "JSONResponse" ->
           [kind |-> "response", status_code |-> res.status_code,
            body |-> res.body, headers |-> res.headers]
      [] res.type = "HTTPException" ->
           LET body == DumpsFlat(<< <<"detail", res.detail>> >>)
           IN  [kind |-> "response", status_code |-> res.status_code,
                body |-> body, headers |-> InitHeaders(<<>>, body)]
      [] res.type = "dict" ->
           LET body == IF "services" \in Keys(res.content)
                       THEN "{\"gateway\":\"" \o Get(res.content, "gateway")
                            \o "\",\"services\":"
                            \o DumpsMap(Get(res.content, "services")) \o "}"
                       ELSE DumpsFlat(res.content)
           IN  [kind |-> "response", status_code |-> 200,
                body |-> body, headers |-> InitHeaders(<<>>, body)]

\* CORSMiddleware(allow_origins=["*"], allow_credentials=True): a request with
\* an Origin header gets the CORS headers on its response.
CorsHeaders(q, h) ==
    IF "origin" \notin Keys(q.headers) THEN h
    ELSE LET simple == DictSet(DictSet(h, "access-control-allow-origin", "*"),
                               "access-control-allow-credentials", "true")
         IN  IF "cookie" \notin Keys(q.headers) THEN simple
             ELSE DictSet(DictSet(simple, "access-control-allow-origin",
                                  Get(StarletteDict(q.headers), "origin")),
                          "vary",
                          IF "vary" \in Keys(simple)
                          THEN Get(simple, "vary") \o ", Origin" ELSE "Origin")

\* A mutant: the middleware only logs.
LoggingHeadersOff(h, correlation_id) == h

\* logging_middleware after call_next.
LoggingHeaders(h, correlation_id) ==
    DictSet(DictSet(h, "x-correlation-id", correlation_id),
            "x-process-time", "elapsed")

HasMiddleware(a) == a = "app"

Outbound(a, q, correlation_id, res) ==
    LET r0 == Serialize(res)
    IN  IF HasMiddleware(a)
        THEN [r0 EXCEPT !.headers = LoggingHeaders(CorsHeaders(q, r0.headers),
                                                   correlation_id)]
        ELSE r0

(***************************************************************************)
(* The traffic.  A run explores one scenario: every request a client can   *)
(* send on the proxy routes ("forward"), every answer a backend can give   *)
(* ("relay"), the health routes ("health"), or several requests in flight  *)
(* at once, to a proxied service and to /health ("overlap").               *)
(***************************************************************************)
Scenarios == {"forward", "relay", "health", "overlap"}

Reqs == 1 .. MaxInFlight

Slots(s) == IF s = "overlap" THEN Reqs ELSE {1}

InPairs == {<<"accept", "text/html">>, <<"accept", "application/json">>,
            <<"origin", "http://ui">>}

OutPairs == {<<"content-type", "application/json">>, <<"set-cookie", "a=1">>,
             <<"set-cookie", "b=2">>, <<"x-correlation-id", "backend">>}

Tails == {"42", "items/7"}

InBodies == {EmptyBody, "{\"name\":\"x\"}"}

Contents == {EmptyBody, JsonDoc, SpacedJsonDoc, NotJson}

StatusCodes == {200, 404, 500}

Uuids == {"uuid-a", "uuid-b"}

NoCid == "none"

Inbound(s) ==
    CASE s = "forward" ->
           [method : Methods, route : Prefixes, tail : Tails,
            headers : Lists(InPairs, MaxHeaders), body : InBodies]
      [] s = "relay" ->
           [method : {"GET"}, route : {"users", "external_data"}, tail : {"42"},
            headers : {<<>>, << <<"origin", "http://ui">> >>}, body : {EmptyBody}]
      [] s = "health" ->
           [method : {"GET"}, route : {HealthRoute, ServicesHealthRoute},
            tail : {""}, headers : {<<>>}, body : {EmptyBody}]
      [] s = "overlap" ->
           [method : {"GET"}, route : {"users"}, tail : {"42"},
            headers : {<<>>}, body : {EmptyBody}]
           \cup [method : {"GET"}, route : {HealthRoute}, tail : {""},
                 headers : {<<>>}, body : {EmptyBody}]

BasicOutcomes ==
    {Responded(200, JsonDoc, <<>>), Raised("ReadTimeout"), Raised("ConnectError")}

Outcomes(s) ==
    IF s = "relay"
    THEN {Responded(c, b, h) : c \in StatusCodes, b \in Contents,
                               h \in Lists(OutPairs, MaxHeaders)}
         \cup {Raised(e) : e \in TransportExceptions}
    ELSE BasicOutcomes

ProbeOutcomes ==
    {Responded(200, EmptyBody, <<>>), Responded(503, EmptyBody, <<>>),
     Raised("ReadTimeout"), Raised("ConnectError")}

(***************************************************************************)
(* The persistence layer: what its state holds when the module is loaded.  *)
(***************************************************************************)
\* Python's None where an object is expected.
None == [kind |-> "None"]

\* DatabaseManager(): the attrs defaults of its three fields.
DatabaseManager ==
    [engine |-> None, SessionLocal |-> None, initialized |-> FALSE]

\* No with session_scope() block is open.
NoScope == [pc |-> "idle", session |-> None, body |-> None, raised |-> None]

\* Nothing has been called on db_manager yet.
NoCall ==
    [op |-> "None", before |-> DatabaseManager, kind |-> "None",
     value |-> None, session |-> None]

\* A thread that is not inside a method of db_manager.
NoThread ==
    [pc |-> "idle", op |-> "None", db_config |-> None, factory |-> None,
     raised |-> None, session |-> None]

Threads == 1 .. MaxThreads

\* The names _get_db_config requires, in the order it lists them.
required_vars == <<"POSTGRES_USER", "POSTGRES_PASSWORD", "POSTGRES_DB">>

\* An environment that sets every required name (as doppler run does).
FullEnv == [var \in {required_vars[i] : i \in DOMAIN required_vars} |-> "emby"]

\* The gateway process never imports shared/database.py.
PersistenceUnused ==
    /\ environ = FullEnv
    /\ db_manager = DatabaseManager
    /\ tables = FALSE
    /\ store = {}
    /\ scope = NoScope
    /\ open_sessions = 0
    /\ last_call = NoCall
    /\ threads = [t \in Threads |-> NoThread]
    /\ made = [engines |-> 0, factories |-> 0]

(***************************************************************************)
(* The state machine.                                                      *)
(***************************************************************************)
\* No request is in flight.
GatewayIdle ==
    /\ pc = [r \in Reqs |-> "idle"]
    /\ inbound = [r \in Reqs |-> NoRequest]
    /\ cid = [r \in Reqs |-> NoCid]
    /\ target = [r \in Reqs |-> NoRequest]
    /\ sent = [r \in Reqs |-> 0]
    /\ backend = [r \in Reqs |-> NoOutcome]
    /\ result = [r \in Reqs |-> NoResult]
    /\ resp = [r \in Reqs |-> NoResponse]
    /\ replies = [r \in Reqs |-> 0]
    /\ health_status = [r \in Reqs |-> <<>>]
    /\ probe_i = [r \in Reqs |-> 0]
    /\ probe_log = [r \in Reqs |-> <<>>]

Init ==
    /\ app \in Apps
    /\ scenario \in Scenarios
    /\ GatewayIdle
    /\ PersistenceUnused

\* A request arrives on a free connection and enters the middleware stack;
\* logging_middleware draws its correlation id and awaits call_next.
Accept(r) ==
    /\ r \in Slots(scenario)
    /\ pc[r] = "idle"
    /\ \E q \in Inbound(scenario), u \in Uuids :
          /\ inbound' = [inbound EXCEPT ![r] = q]
          /\ cid' = [cid EXCEPT ![r] = IF HasMiddleware(app) THEN u ELSE NoCid]
    /\ pc' = [pc EXCEPT ![r] = "dispatch"]
    /\ UNCHANGED dbvars
    /\ UNCHANGED thvars
    /\ UNCHANGED <<app, scenario, target, sent, backend, result, resp, replies,
                   health_status, probe_i, probe_log>>

\* gateway_health / health_check.
HealthHandler(r) ==
    /\ pc[r] = "dispatch"
    /\ inbound[r].route = HealthRoute
    /\ result' = [result EXCEPT ![r] = DictResult(GatewayHealth)]
    /\ pc' = [pc EXCEPT ![r] = "returning"]
    /\ UNCHANGED dbvars
    /\ UNCHANGED thvars
    /\ UNCHANGED <<app, scenario, inbound, cid, target, sent, backend, resp,
                   replies, health_status, probe_i, probe_log>>

\* A mutant: the forward is a blocking call, which cannot start while the event
\* loop is held by another forward.
ProxyCallBlocking(r) ==
    /\ pc[r] = "dispatch"
    /\ inbound[r].route \in Keys(Routes(app))
    /\ \A other \in Reqs \ {r} : pc[other] # "waiting"
    /\ LET q == inbound[r]
           st == ProxyStart(app, Get(Routes(app), q.route),
                            UrlPath(q.route, q.tail), q)
       IN  /\ target' = [target EXCEPT ![r] = st.request]
           /\ sent' = [sent EXCEPT ![r] =
                         IF st.request = NoRequest THEN @ ELSE @ + 1]
           /\ result' = [result EXCEPT ![r] = st.raised]
           /\ pc' = [pc EXCEPT ![r] =
                       IF st.raised = NoResult THEN "waiting" ELSE "returning"]
    /\ UNCHANGED dbvars
    /\ UNCHANGED thvars
    /\ UNCHANGED <<app, scenario, inbound, cid, backend, resp, replies,
                   health_status, probe_i, probe_log>>

\* users_proxy, content_proxy, recommendations_proxy, external_data_proxy: the
\* route calls proxy_request, which raises or suspends in client.request.
ProxyCall(r) ==
    /\ pc[r] = "dispatch"
    /\ inbound[r].route \in Keys(Routes(app))
    /\ LET q == inbound[r]
           st == ProxyStart(app, Get(Routes(app), q.route),
                            UrlPath(q.route, q.tail), q)
       IN  /\ target' = [target EXCEPT ![r] = st.request]
           /\ sent' = [sent EXCEPT ![r] =
                         IF st.request = NoRequest THEN @ ELSE @ + 1]
           /\ result' = [result EXCEPT ![r] = st.raised]
           /\ pc' = [pc EXCEPT ![r] =
                       IF st.raised = NoResult THEN "waiting" ELSE "returning"]
    /\ UNCHANGED dbvars
    /\ UNCHANGED thvars
    /\ UNCHANGED <<app, scenario, inbound, cid, backend, resp, replies,
                   health_status, probe_i, probe_log>>

\* A mutant: a failed forward is tried once more.
ProxyResolveRetry(r) ==
    /\ pc[r] = "waiting"
    /\ \E o \in Outcomes(scenario) :
          IF o.kind = "raised" /\ sent[r] < 2
          THEN /\ sent' = [sent EXCEPT ![r] = @ + 1]
               /\ UNCHANGED <<backend, result, pc>>
          ELSE /\ backend' = [backend EXCEPT ![r] = o]
               /\ result' = [result EXCEPT ![r] = ProxyFinish(o)]
               /\ pc' = [pc EXCEPT ![r] = "returning"]
               /\ UNCHANGED sent
    /\ UNCHANGED dbvars
    /\ UNCHANGED thvars
    /\ UNCHANGED <<app, scenario, inbound, cid, target, resp, replies,
                   health_status, probe_i, probe_log>>

\* client.request resolves: the backend answered, or httpx raised.
ProxyResolve(r) ==
    /\ pc[r] = "waiting"
    /\ \E o \in Outcomes(scenario) :
          /\ backend' = [backend EXCEPT ![r] = o]
          /\ result' = [result EXCEPT ![r] = ProxyFinish(o)]
    /\ pc' = [pc EXCEPT ![r] = "returning"]
    /\ UNCHANGED dbvars
    /\ UNCHANGED thvars
    /\ UNCHANGED <<app, scenario, inbound, cid, target, sent, resp, replies,
                   health_status, probe_i, probe_log>>

\* services_health enters get_services_health: health_status = {}.
HealthCheckStart(r) ==
    /\ pc[r] = "dispatch"
    /\ inbound[r].route = ServicesHealthRoute
    /\ health_status' = [health_status EXCEPT ![r] = <<>>]
    /\ probe_i' = [probe_i EXCEPT ![r] = 1]
    /\ pc' = [pc EXCEPT ![r] = "probing"]
    /\ UNCHANGED dbvars
    /\ UNCHANGED thvars
    /\ UNCHANGED <<app, scenario, inbound, cid, target, sent, backend, result,
                   resp, replies, probe_log>>

\* The loop takes the next item of SERVICES and suspends in client.get.
ProbeIssue(r) ==
    /\ pc[r] = "probing"
    /\ probe_i[r] <= Len(SERVICES(app))
    /\ LET item == SERVICES(app)[probe_i[r]]
       IN  probe_log' = [probe_log EXCEPT ![r] =
                           Append(@, [service |-> item[1],
                                      url |-> item[2] \o "/health",
                                      outcome |-> NoOutcome])]
    /\ pc' = [pc EXCEPT ![r] = "probe_wait"]
    /\ UNCHANGED dbvars
    /\ UNCHANGED thvars
    /\ UNCHANGED <<app, scenario, inbound, cid, target, sent, backend, result,
                   resp, replies, health_status, probe_i>>

\* A mutant: an exception of a probe leaves the loop and the handler.
ProbeResolveAbort(r) ==
    /\ pc[r] = "probe_wait"
    /\ \E o \in ProbeOutcomes :
          /\ probe_log' = [probe_log EXCEPT ![r][Len(probe_log[r])].outcome = o]
          /\ IF o.kind = "raised"
             THEN /\ result' = [result EXCEPT ![r] =
                                  HTTPException(500, "Internal Server Error")]
                  /\ pc' = [pc EXCEPT ![r] = "returning"]
                  /\ UNCHANGED <<health_status, probe_i>>
             ELSE /\ health_status' = [health_status EXCEPT ![r] =
                        ProbeEntry(@, SERVICES(app)[probe_i[r]][1], o)]
                  /\ probe_i' = [probe_i EXCEPT ![r] = @ + 1]
                  /\ pc' = [pc EXCEPT ![r] = "probing"]
                  /\ UNCHANGED result
    /\ UNCHANGED dbvars
    /\ UNCHANGED thvars
    /\ UNCHANGED <<app, scenario, inbound, cid, target, sent, backend,
                   resp, replies>>

\* client.get resolves; the entry of the service is written and the loop goes on.
ProbeResolve(r) ==
    /\ pc[r] = "probe_wait"
    /\ \E o \in ProbeOutcomes :
          /\ probe_log' = [probe_log EXCEPT ![r][Len(probe_log[r])].outcome = o]
          /\ health_status' = [health_status EXCEPT ![r] =
                ProbeEntry(@, SERVICES(app)[probe_i[r]][1], o)]
    /\ probe_i' = [probe_i EXCEPT ![r] = @ + 1]
    /\ pc' = [pc EXCEPT ![r] = "probing"]
    /\ UNCHANGED dbvars
    /\ UNCHANGED thvars
    /\ UNCHANGED <<app, scenario, inbound, cid, target, sent, backend, result,
                   resp, replies>>

\* The loop is exhausted: return {"gateway": "healthy", "services": ...}.
HealthCheckReturn(r) ==
    /\ pc[r] = "probing"
    /\ probe_i[r] > Len(SERVICES(app))
    /\ result' = [result EXCEPT ![r] = DictResult(HealthReport(health_status[r]))]
    /\ pc' = [pc EXCEPT ![r] = "returning"]
    /\ UNCHANGED dbvars
    /\ UNCHANGED thvars
    /\ UNCHANGED <<app, scenario, inbound, cid, target, sent, backend, resp,
                   replies, health_status, probe_i, probe_log>>

\* A mutant: the correlation id for the header is read from a place all
\* requests share (the one the first connection wrote) instead of the local
\* variable of this call of logging_middleware.
RespondSharedId(r) ==
    /\ pc[r] = "returning"
    /\ resp' = [resp EXCEPT ![r] = Outbound(app, inbound[r], cid[1], result[r])]
    /\ replies' = [replies EXCEPT ![r] = @ + 1]
    /\ pc' = [pc EXCEPT ![r] = "done"]
    /\ UNCHANGED dbvars
    /\ UNCHANGED thvars
    /\ UNCHANGED <<app, scenario, inbound, cid, target, sent, backend, result,
                   health_status, probe_i, probe_log>>

\* call_next returns (or the exception handler answers) and the response goes
\* out through the middleware to the client.
Respond(r) ==
    /\ pc[r] = "returning"
    /\ resp' = [resp EXCEPT ![r] = Outbound(app, inbound[r], cid[r], result[r])]
    /\ replies' = [replies EXCEPT ![r] = @ + 1]
    /\ pc' = [pc EXCEPT ![r] = "done"]
    /\ UNCHANGED dbvars
    /\ UNCHANGED thvars
    /\ UNCHANGED <<app, scenario, inbound, cid, target, sent, backend, result,
                   health_status, probe_i, probe_log>>

\* The request cycle is over: the task ends, the request and all it held are
\* dropped, and the connection is free for the next request.
Complete(r) ==
    /\ pc[r] = "done"
    /\ pc' = [pc EXCEPT ![r] = "idle"]
    /\ inbound' = [inbound EXCEPT ![r] = NoRequest]
    /\ cid' = [cid EXCEPT ![r] = NoCid]
    /\ target' = [target EXCEPT ![r] = NoRequest]
    /\ sent' = [sent EXCEPT ![r] = 0]
    /\ backend' = [backend EXCEPT ![r] = NoOutcome]
    /\ result' = [result EXCEPT ![r] = NoResult]
    /\ resp' = [resp EXCEPT ![r] = NoResponse]
    /\ replies' = [replies EXCEPT ![r] = 0]
    /\ health_status' = [health_status EXCEPT ![r] = <<>>]
    /\ probe_i' = [probe_i EXCEPT ![r] = 0]
    /\ probe_log' = [probe_log EXCEPT ![r] = <<>>]
    /\ UNCHANGED dbvars
    /\ UNCHANGED thvars
    /\ UNCHANGED <<app, scenario>>

\* The steps of the task of request r once it is accepted.
Run(r) ==
    \/ HealthHandler(r)
    \/ ProxyCall(r)
    \/ ProxyResolve(r)
    \/ HealthCheckStart(r)
    \/ ProbeIssue(r)
    \/ ProbeResolve(r)
    \/ HealthCheckReturn(r)
    \/ Respond(r)

Next ==
    \E r \in Reqs :
        \/ Accept(r)
        \/ HealthHandler(r)
        \/ ProxyCall(r)
        \/ ProxyResolve(r)
        \/ HealthCheckStart(r)
        \/ ProbeIssue(r)
        \/ ProbeResolve(r)
        \/ HealthCheckReturn(r)
        \/ Respond(r)
        \/ Complete(r)

Spec == Init /\ [][Next]_vars

\* The event loop runs every task that can run, and every awaited backend call
\* resolves: it answers, fails, or its timeout (30 s, 5 s for a probe) fires.
\* Liveness is explored on the health routes and on overlapping requests.
LiveInit == Init /\ scenario \in {"health", "overlap"}

LiveSpec == LiveInit /\ [][Next]_vars /\ \A r \in Reqs : WF_vars(Run(r))

(***************************************************************************)
(* The persistence layer: DatabaseManager, its sessions and the two        *)
(* mapped classes.  os.environ is a function from the names that are set   *)
(* to their values; a nullable column holds <<>> (NULL) or <<value>>.      *)
(***************************************************************************)
MaxAdds == 2        \* objects one with-block adds to its session
MaxSessions == 1    \* sessions of session_scope open at the same time
MaxEngines == 2     \* engines a process may create
MaxCalls == 2       \* commit and rollback calls the holder of a session makes

\* pool_size=10 of create_engine.
PoolSize == 10

\* os.getenv(var, default).
Getenv(env, var, default) == IF var \in DOMAIN env THEN env[var] ELSE default

\* A mutant: only an unset name counts as missing.
MissingVarsUnsetOnly(env) ==
    SelectSeq(required_vars, LAMBDA var : var \notin DOMAIN env)

\* [var for var in required_vars if not os.getenv(var)]
MissingVars(env) ==
    SelectSeq(required_vars, LAMBDA var : var \notin DOMAIN env \/ env[var] = "")

ValueError(missing_vars) ==
    [type |-> "ValueError", names |-> missing_vars,
     message |-> "Missing required environment variables: "
                 \o Join(missing_vars)
                 \o ". Please ensure these are set (via Doppler or environment)."]

\* _get_db_config: raises, or returns {"url": ..., "echo": ...}.
get_db_config(env) ==
    LET missing_vars == MissingVars(env)
    IN  IF missing_vars # <<>>
        THEN [raised |-> ValueError(missing_vars)]
        ELSE [raised |-> None,
              url |-> "postgresql+psycopg://"
                      \o Getenv(env, "POSTGRES_USER", "") \o ":"
                      \o Getenv(env, "POSTGRES_PASSWORD", "") \o "@"
                      \o Getenv(env, "POSTGRES_HOST", "localhost") \o ":"
                      \o Getenv(env, "POSTGRES_PORT", "5432") \o "/"
                      \o Getenv(env, "POSTGRES_DB", ""),
              echo |-> Getenv(env, "DB_ECHO", "false") = "true"]

\* create_engine: a new Engine object each time; it connects lazily.
create_engine(db_config, previous) ==
    [kind |-> "Engine",
     id |-> IF previous = None THEN 1 ELSE previous.id + 1,
     url |-> db_config.url, echo |-> db_config.echo, pool_size |-> PoolSize]

\* sessionmaker(autocommit=False, autoflush=False, bind=engine).
sessionmaker(bind) ==
    [kind |-> "sessionmaker", autocommit |-> FALSE, autoflush |-> FALSE,
     bind |-> bind]

\* A mutant: initialize builds the engine again on every call.
initializeAgain(m, env) ==
    LET db_config == get_db_config(env)
    IN  IF db_config.raised # None
        THEN [manager |-> m, raised |-> db_config.raised]
        ELSE LET e == create_engine(db_config, m.engine)
             IN  [manager |-> [engine |-> e, SessionLocal |-> sessionmaker(e),
                               initialized |-> TRUE],
                  raised |-> None]

\* DatabaseManager.initialize.
initialize(m, env) ==
    IF m.initialized
    THEN [manager |-> m, raised |-> None]
    ELSE LET db_config == get_db_config(env)
         IN  IF db_config.raised # None
             THEN [manager |-> m, raised |-> db_config.raised]
             ELSE LET e == create_engine(db_config, m.engine)
                  IN  [manager |-> [engine |-> e,
                                    SessionLocal |-> sessionmaker(e),
                                    initialized |-> TRUE],
                       raised |-> None]

\* SessionLocal(): a new Session bound to the engine; no transaction yet.
Session(factory) ==
    [kind |-> "Session", bind |-> factory.bind.id,
     new |-> {},          \* objects added and not flushed
     flushed |-> {},      \* rows this transaction has inserted
     inserted |-> {},     \* every row the session has inserted
     added |-> {},        \* every object the caller handed to add()
     loaded |-> {},       \* objects the last query returned
     queried |-> FALSE,
     calls |-> <<>>]      \* commit, rollback and close, as they were called

\* DatabaseManager.get_session.
get_session(m, env) ==
    LET i == IF ~m.initialized THEN initialize(m, env)
             ELSE [manager |-> m, raised |-> None]
    IN  IF i.raised # None
        THEN [manager |-> i.manager, raised |-> i.raised, session |-> None]
        ELSE [manager |-> i.manager, raised |-> None,
              session |-> Session(i.manager.SessionLocal)]

\* The columns of the two mapped classes a caller may supply, and those of
\* them that are nullable.
Columns(cls) ==
    IF cls = "User" THEN {"emby_user_id", "username"}
    ELSE {"emby_item_id", "name", "type", "tmdb_id", "production_year",
          "runtime_minutes", "genres", "overview"}

Nullable ==
    {"tmdb_id", "production_year", "runtime_minutes", "genres", "overview"}

TableName(cls) == IF cls = "User" THEN "users" ELSE "media_items"

\* The unique external identifier of a row.
ExternalId(row) ==
    IF row.table = "users" THEN row.emby_user_id ELSE row.emby_item_id

\* A mutant: the genres of a row are stored as a set of tags, which comes back
\* in the order of the database.
ColumnValueUnordered(obj, column) ==
    IF column \in Nullable
    THEN IF column \in DOMAIN obj.kwargs
         THEN IF column = "genres" /\ Len(obj.kwargs[column]) = 2
              THEN << <<obj.kwargs[column][2], obj.kwargs[column][1]>> >>
              ELSE <<obj.kwargs[column]>>
         ELSE <<>>
    ELSE obj.kwargs[column]

\* The value INSERT binds for a column: the keyword the constructor was given,
\* NULL for a nullable column it was not given.
ColumnValue(obj, column) ==
    IF column \in Nullable
    THEN IF column \in DOMAIN obj.kwargs THEN <<obj.kwargs[column]>> ELSE <<>>
    ELSE obj.kwargs[column]

\* The row INSERT writes for an object: its columns, the primary key the
\* Python-side default draws, and the server-side timestamps.
ToRow(obj, id) ==
    [column \in Columns(obj.cls) \cup {"table", "id", "created_at", "updated_at"} |->
        CASE column = "table" -> TableName(obj.cls)
          [] column = "id" -> id
          [] column \in {"created_at", "updated_at"} -> "now()"
          [] OTHER -> ColumnValue(obj, column)]

\* The instance a query builds from a row: one attribute per column.
FromRow(row) ==
    [attribute \in (DOMAIN row \ {"table"}) \cup {"cls"} |->
        IF attribute = "cls"
        THEN (IF row.table = "users" THEN "User" ELSE "MediaItem")
        ELSE row[attribute]]

\* A mutant: only the primary keys are unique.
ConflictIdOnly(new_rows, old_rows) ==
    \E r1 \in new_rows, r2 \in new_rows \cup old_rows :
        /\ r1.table = r2.table
        /\ r1 # r2 \/ r2 \in old_rows
        /\ r1.id = r2.id

\* primary_key=True on id, unique=True on emby_user_id and on emby_item_id:
\* whether an INSERT of new_rows violates a constraint.
Conflict(new_rows, old_rows) ==
    \E r1 \in new_rows, r2 \in new_rows \cup old_rows :
        /\ r1.table = r2.table
        /\ r1 # r2 \/ r2 \in old_rows
        /\ r1.id = r2.id \/ ExternalId(r1) = ExternalId(r2)

\* Exceptions: what SQLAlchemy raises (all subclasses of Exception), what the
\* body of a with-block may raise besides, and which of them except Exception
\* catches.
OperationalError(during) == [type |-> "OperationalError", during |-> during]

ProgrammingError == [type |-> "ProgrammingError", during |-> "execute"]

IntegrityError == [type |-> "IntegrityError", during |-> "flush"]

BodyExceptions ==
    {[type |-> "RuntimeError", during |-> "body"],
     [type |-> "KeyboardInterrupt", during |-> "body"]}

IsException(e) == e.type \notin {"KeyboardInterrupt", "SystemExit", "GeneratorExit"}

\* session.add(obj).
add(s, obj) == [s EXCEPT !.new = @ \cup {obj}, !.added = @ \cup {obj}]

\* session.flush(): INSERT the new objects inside the transaction.
Insert(s, st, rows) ==
    IF Conflict(rows, st \cup s.flushed)
    THEN [session |-> s, raised |-> IntegrityError]
    ELSE [session |-> [s EXCEPT !.new = {}, !.flushed = @ \cup rows,
                                !.inserted = @ \cup rows],
          raised |-> None]

flush(s, st, tbl, ids, fault) ==
    IF s.new = {} THEN [session |-> s, raised |-> None]
    ELSE IF fault THEN [session |-> s, raised |-> OperationalError("flush")]
    ELSE IF ~tbl THEN [session |-> s, raised |-> ProgrammingError]
    ELSE Insert(s, st, {ToRow(obj, ids[obj]) : obj \in s.new})

\* session.query(User).all() and session.query(MediaItem).all(): the committed
\* rows and those of the own transaction (autoflush is off).
query_all(s, st, tbl, fault) ==
    IF fault THEN [session |-> s, raised |-> OperationalError("execute")]
    ELSE IF ~tbl THEN [session |-> s, raised |-> ProgrammingError]
    ELSE [session |-> [s EXCEPT !.queried = TRUE,
                                !.loaded = {FromRow(row) : row \in st \cup s.flushed}],
          raised |-> None]

Called(s, name, e) == [s EXCEPT !.calls = Append(@, [call |-> name, raised |-> e])]

\* session.commit(): flush, then COMMIT; the rows of the transaction become
\* committed rows, or the call raises and none does.
Committed(s, st, f) ==
    IF f.raised # None
    THEN [session |-> Called(s, "commit", f.raised), store |-> st,
          raised |-> f.raised]
    ELSE [session |-> Called([f.session EXCEPT !.flushed = {}], "commit", None),
          store |-> st \cup f.session.flushed, raised |-> None]

commit(s, st, tbl, ids, fault) ==
    IF fault
    THEN [session |-> Called(s, "commit", OperationalError("commit")),
          store |-> st, raised |-> OperationalError("commit")]
    ELSE Committed(s, st, flush(s, st, tbl, ids, FALSE))

\* session.rollback(): the transaction and the pending objects are dropped.
rollback(s, fault) ==
    IF fault
    THEN [session |-> Called([s EXCEPT !.new = {}, !.flushed = {}], "rollback",
                             OperationalError("rollback")),
          raised |-> OperationalError("rollback")]
    ELSE [session |-> Called([s EXCEPT !.new = {}, !.flushed = {}], "rollback",
                             None),
          raised |-> None]

\* session.close(): the connection goes back to the pool, an open transaction
\* is discarded.
close(s) == Called([s EXCEPT !.new = {}, !.flushed = {}], "close", None)

\* session_scope from the end of the with-block on, clause by clause; body is
\* what the block raised, None when it ended or returned.
\*     try: yield session; session.commit()
try_clause(s, body, st, tbl, ids, commit_fault) ==
    IF body = None THEN commit(s, st, tbl, ids, commit_fault)
    ELSE [session |-> s, store |-> st, raised |-> body]

\* raise, after session.rollback() returned or raised: r is how it ended.
Reraise(c, r) ==
    [session |-> r.session, store |-> c.store,
     raised |-> IF r.raised # None THEN r.raised ELSE c.raised]

\*     except Exception: session.rollback(); raise
except_clause(c, rollback_fault) ==
    IF c.raised # None /\ IsException(c.raised)
    THEN Reraise(c, rollback(c.session, rollback_fault))
    ELSE c

\*     finally: session.close()
finally_clause(r) ==
    [session |-> close(r.session), store |-> r.store, raised |-> r.raised]

\* A mutant: close is the last statement of the generator instead of a finally
\* clause.
session_scope_no_finally(s, body, st, tbl, ids, commit_fault, rollback_fault) ==
    LET r == except_clause(try_clause(s, body, st, tbl, ids, commit_fault),
                           rollback_fault)
    IN  IF r.raised = None THEN finally_clause(r) ELSE r

\* A mutant: the scope commits in the finally clause.
session_scope_commit_always(s, body, st, tbl, ids, commit_fault, rollback_fault) ==
    LET c == commit(s, st, tbl, ids, commit_fault)
    IN  finally_clause(
            except_clause([session |-> c.session, store |-> c.store,
                           raised |-> IF body # None THEN body ELSE c.raised],
                          rollback_fault))

\* DatabaseManager.session_scope.
session_scope(s, body, st, tbl, ids, commit_fault, rollback_fault) ==
    finally_clause(
        except_clause(try_clause(s, body, st, tbl, ids, commit_fault),
                      rollback_fault))

\* A mutant: get_db ends the way session_scope does, committing on a normal
\* exit and rolling back on an exception.
get_db_transactional(s, body, st, tbl, ids) ==
    session_scope(s, body, st, tbl, ids, FALSE, FALSE)

\* get_db from its yield on: try: yield session; finally: session.close().
\* body is what was thrown into the generator, None when the route ended.
get_db(s, body, st, tbl, ids) ==
    [session |-> close(s), store |-> st, raised |-> body]

\* get_db_session: return db_manager.get_session().
get_db_session(m, env) == get_session(m, env)

\* What a call on the manager leaves and hands back.
Outcome(m, raised, value, session) ==
    [manager |-> m, raised |-> raised, value |-> value, session |-> session]

\* A mutant: the probes have no except clause.
UncaughtAll(e) == e

\* The except Exception clause of health_check and of get_connection_info:
\* what is raised to the caller when e leaves the try block.
Uncaught(e) == IF IsException(e) THEN None ELSE e

\* return result == 1, and what the scope x makes of leaving the block.
health_check_return(g, q, x) ==
    IF x.raised # None
    THEN Outcome(g.manager, Uncaught(x.raised), FALSE, x.session)
    ELSE Outcome(g.manager, None, q.scalar = 1, x.session)

\* with self.session_scope() as session: g is how get_session ended.
health_check_with(g, st, tbl, q, commit_fault, rollback_fault) ==
    IF g.raised # None
    THEN Outcome(g.manager, Uncaught(g.raised), FALSE, None)
    ELSE health_check_return(
             g, q, session_scope(g.session, q.raised, st, tbl, <<>>,
                                 commit_fault, rollback_fault))

\* DatabaseManager.health_check; q is how session.execute(text("SELECT 1"))
\* ended.  The return statement leaves the with-block, so the scope commits
\* before the caller has the value.
health_check(m, env, st, tbl, q, commit_fault, rollback_fault) ==
    health_check_with(get_session(m, env), st, tbl, q, commit_fault,
                      rollback_fault)

\* The dict of a probe that ran.
ConnectionInfo(m, q) ==
    [status |-> "connected",
     postgresql_version |-> q.version,
     active_connections |-> q.connection_count,
     pool_size |-> m.engine.pool_size,
     checked_out_connections |-> q.checkedout]

\* return {...}, and what the scope x makes of leaving the block.
get_connection_info_return(g, q, x) ==
    IF x.raised # None
    THEN Outcome(g.manager, Uncaught(x.raised),
                 [status |-> "error", error |-> x.raised.type], x.session)
    ELSE Outcome(g.manager, None, ConnectionInfo(g.manager, q), x.session)

\* with self.session_scope() as session: g is how get_session ended.
get_connection_info_with(g, st, tbl, q, commit_fault, rollback_fault) ==
    IF g.raised # None
    THEN Outcome(g.manager, Uncaught(g.raised),
                 [status |-> "error", error |-> g.raised.type], None)
    ELSE get_connection_info_return(
             g, q, session_scope(g.session, q.raised, st, tbl, <<>>,
                                 commit_fault, rollback_fault))

\* A mutant: get_connection_info initializes the manager as get_session does.
get_connection_info_lazy(m, env, st, tbl, q, commit_fault, rollback_fault) ==
    get_connection_info_with(get_session(m, env), st, tbl, q, commit_fault,
                             rollback_fault)

\* DatabaseManager.get_connection_info; q is how the two queries of the body
\* ended and what engine.pool.checkedout() answers inside the block.
get_connection_info(m, env, st, tbl, q, commit_fault, rollback_fault) ==
    IF ~m.initialized
    THEN Outcome(m, None, [status |-> "not_initialized"], None)
    ELSE get_connection_info_with(get_session(m, env), st, tbl, q,
                                  commit_fault, rollback_fault)

\* DatabaseManager.create_tables: Base.metadata.create_all(bind=self.engine).
create_tables(m, env, tbl, fault) ==
    LET i == IF ~m.initialized THEN initialize(m, env)
             ELSE [manager |-> m, raised |-> None]
    IN  IF i.raised # None
        THEN [manager |-> i.manager, raised |-> i.raised, tables |-> tbl]
        ELSE IF fault
        THEN [manager |-> i.manager, raised |-> OperationalError("execute"),
              tables |-> tbl]
        ELSE [manager |-> i.manager, raised |-> None, tables |-> TRUE]

\* DatabaseManager.drop_tables: Base.metadata.drop_all(bind=self.engine).
drop_tables(m, env, tbl, st, fault) ==
    LET i == IF ~m.initialized THEN initialize(m, env)
             ELSE [manager |-> m, raised |-> None]
    IN  IF i.raised # None
        THEN [manager |-> i.manager, raised |-> i.raised, tables |-> tbl,
              store |-> st]
        ELSE IF fault
        THEN [manager |-> i.manager, raised |-> OperationalError("execute"),
              tables |-> tbl, store |-> st]
        ELSE [manager |-> i.manager, raised |-> None, tables |-> FALSE,
              store |-> {}]

(***************************************************************************)
(* What the callers and the database server may do.                        *)
(***************************************************************************)
\* "config": the environment of the process varies, no rows are written.
\* "data": the environment is complete, with-blocks add and query objects.
DbScenarios == {"config", "data"}

EnvNames == {required_vars[i] : i \in DOMAIN required_vars}

EnvValues == {"", "emby"}

Environments(s) ==
    IF s = "config"
    THEN UNION {[S -> EnvValues] : S \in SUBSET EnvNames}
    ELSE {FullEnv}

\* The objects of scripts/test_sample_pg_data.py, a second user with the
\* external identifier of the first, and a media item given only its
\* required columns.
Objects(s) ==
    IF s = "data"
    THEN {[cls |-> "User",
           kwargs |-> [emby_user_id |-> "test_user_123", username |-> "test_user"]],
          [cls |-> "User",
           kwargs |-> [emby_user_id |-> "test_user_123", username |-> "other"]],
          [cls |-> "MediaItem",
           kwargs |-> [emby_item_id |-> "movie_456", name |-> "The Matrix",
                       type |-> "Movie", tmdb_id |-> 603,
                       production_year |-> 1999, runtime_minutes |-> 136,
                       genres |-> <<"Action", "Sci-Fi">>,
                       overview |-> "A computer programmer discovers reality is a simulation."]],
          [cls |-> "MediaItem",
           kwargs |-> [emby_item_id |-> "episode_789",
                       name |-> "Breaking Bad - Pilot", type |-> "Episode"]]}
    ELSE {}

Faults == BOOLEAN

\* How session.execute(text("SELECT 1")).scalar() may end.
SelectOutcomes ==
    {[raised |-> None, scalar |-> 1],
     [raised |-> OperationalError("execute"), scalar |-> 0]}

\* How the two queries of get_connection_info may end.
InfoOutcomes ==
    {[raised |-> None, version |-> "PostgreSQL 16.3", connection_count |-> 1,
      checkedout |-> 1],
     [raised |-> None, version |-> "PostgreSQL 16.3", connection_count |-> 3,
      checkedout |-> 2],
     [raised |-> OperationalError("execute"), version |-> "",
      connection_count |-> 0, checkedout |-> 0]}

\* How the body of a with-block may be left without an exception.
NormalExits == {"end", "return"}

(***************************************************************************)
(* The state machine of a process that uses the persistence layer.         *)
(***************************************************************************)
\* import emby_recommendation_engine.shared.database: db_manager =
\* DatabaseManager(); nothing reads the environment or connects.
DbInit ==
    /\ app = "app"
    /\ scenario \in DbScenarios
    /\ GatewayIdle
    /\ environ \in Environments(scenario)
    /\ db_manager = DatabaseManager
    /\ tables \in BOOLEAN
    /\ store = {}
    /\ scope = NoScope
    /\ open_sessions = 0
    /\ last_call = NoCall
    /\ threads = [t \in Threads |-> NoThread]
    /\ made = [engines |-> 0, factories |-> 0]

\* The serial number of the engine a manager holds, 0 when it holds none.
EngineId(m) == IF m.engine = None THEN 0 ELSE m.engine.id

\* The record of a call on db_manager: the manager it found, and what it
\* returned or raised.
Call(op, raised, value, session) ==
    [op |-> op, before |-> db_manager,
     kind |-> IF raised = None THEN "returned" ELSE "raised",
     value |-> IF raised = None THEN value ELSE raised,
     session |-> session]

\* The one thread of the process is between two statements: outside any
\* with-block, the outcome of its last call dealt with.
Idle == scope.pc = "idle" /\ last_call.op = "None"

\* os.environ[var] = value.
Setenv(var, value) ==
    /\ Idle
    /\ scenario = "config"
    /\ environ' = [v \in DOMAIN environ \cup {var} |->
                     IF v = var THEN value ELSE environ[v]]
    /\ UNCHANGED <<db_manager, tables, store, scope, open_sessions, last_call>>
    /\ UNCHANGED gwvars
    /\ UNCHANGED thvars

\* del os.environ[var].
Unsetenv(var) ==
    /\ Idle
    /\ scenario = "config"
    /\ var \in DOMAIN environ
    /\ environ' = [v \in DOMAIN environ \ {var} |-> environ[v]]
    /\ UNCHANGED <<db_manager, tables, store, scope, open_sessions, last_call>>
    /\ UNCHANGED gwvars
    /\ UNCHANGED thvars

\* db_manager.initialize().
CallInitialize ==
    /\ Idle
    /\ LET i == initialize(db_manager, environ)
       IN  /\ EngineId(i.manager) <= MaxEngines
           /\ db_manager' = i.manager
           /\ last_call' = Call("initialize", i.raised, None, None)
    /\ UNCHANGED <<environ, tables, store, scope, open_sessions>>
    /\ UNCHANGED gwvars
    /\ UNCHANGED thvars

\* db_manager.get_session() (get_db_session): the caller owns the session.
CallGetSession ==
    /\ Idle
    /\ LET g == get_session(db_manager, environ)
       IN  /\ db_manager' = g.manager
           /\ last_call' = Call("get_session", g.raised, g.session, None)
    /\ UNCHANGED <<environ, tables, store, scope, open_sessions>>
    /\ UNCHANGED gwvars
    /\ UNCHANGED thvars

\* with session_scope() as db: the generator runs up to its yield.
ScopeEnter ==
    /\ Idle
    /\ open_sessions < MaxSessions
    /\ LET g == get_session(db_manager, environ)
       IN  /\ db_manager' = g.manager
           /\ IF g.raised # None
              THEN /\ scope' = [pc |-> "exited", session |-> None, how |-> "enter",
                                body |-> None, raised |-> g.raised]
                   /\ UNCHANGED open_sessions
              ELSE /\ scope' = [pc |-> "body", session |-> g.session, how |-> "enter",
                                body |-> None, raised |-> None]
                   /\ open_sessions' = open_sessions + 1
    /\ UNCHANGED <<environ, tables, store, last_call>>
    /\ UNCHANGED gwvars
    /\ UNCHANGED thvars

\* db.add(obj) inside the with-block.
BodyAdd(obj) ==
    /\ scope.pc = "body"
    /\ obj \notin scope.session.added
    /\ Cardinality(scope.session.added) < MaxAdds
    /\ scope' = [scope EXCEPT !.session = add(@, obj)]
    /\ UNCHANGED <<environ, db_manager, tables, store, open_sessions, last_call>>
    /\ UNCHANGED gwvars
    /\ UNCHANGED thvars

\* db.flush() inside the with-block; an exception of it leaves the block.
BodyFlush ==
    /\ scope.pc = "body"
    /\ scope.session.new # {}
    /\ \E ids \in [scope.session.new -> Uuids], fault \in Faults :
          LET f == flush(scope.session, store, tables, ids, fault)
          IN  scope' = [scope EXCEPT
                          !.session = f.session,
                          !.body = f.raised,
                          !.pc = IF f.raised = None THEN "body" ELSE "raising"]
    /\ UNCHANGED <<environ, db_manager, tables, store, open_sessions, last_call>>
    /\ UNCHANGED gwvars
    /\ UNCHANGED thvars

\* db.query(User).all() and db.query(MediaItem).all() inside the with-block.
BodyQuery ==
    /\ scope.pc = "body"
    /\ \E fault \in Faults :
          LET f == query_all(scope.session, store, tables, fault)
          IN  scope' = [scope EXCEPT
                          !.session = f.session,
                          !.body = f.raised,
                          !.pc = IF f.raised = None THEN "body" ELSE "raising"]
    /\ UNCHANGED <<environ, db_manager, tables, store, open_sessions, last_call>>
    /\ UNCHANGED gwvars
    /\ UNCHANGED thvars

\* The with-block is left: by its end, by a return, by an exception of the
\* body; the generator runs from its yield to its end.
ScopeExit ==
    /\ scope.pc \in {"body", "raising"}
    /\ \E how \in NormalExits \cup {"raise"}, e \in BodyExceptions,
          ids \in [scope.session.new -> Uuids],
          commit_fault \in Faults, rollback_fault \in Faults :
          /\ scope.pc = "raising" => how = "raise"
          /\ LET body == IF scope.pc = "raising" THEN scope.body
                         ELSE IF how = "raise" THEN e ELSE None
                 x == session_scope(scope.session, body, store, tables, ids,
                                    commit_fault, rollback_fault)
             IN  /\ scope' = [pc |-> "exited", session |-> x.session, how |-> how,
                              body |-> body, raised |-> x.raised]
                 /\ store' = x.store
                 /\ open_sessions' =
                       open_sessions
                       - Cardinality({k \in DOMAIN x.session.calls :
                                        x.session.calls[k].call = "close"})
    /\ UNCHANGED <<environ, db_manager, tables, last_call>>
    /\ UNCHANGED gwvars
    /\ UNCHANGED thvars

\* The statement after the with-block, or the handler of what it raised.
ScopeLeave ==
    /\ scope.pc = "exited"
    /\ scope' = NoScope
    /\ UNCHANGED <<environ, db_manager, tables, store, open_sessions, last_call>>
    /\ UNCHANGED gwvars
    /\ UNCHANGED thvars

\* db_manager.create_tables().
CallCreateTables ==
    /\ Idle
    /\ \E fault \in Faults :
          LET c == create_tables(db_manager, environ, tables, fault)
          IN  /\ EngineId(c.manager) <= MaxEngines
              /\ db_manager' = c.manager
              /\ tables' = c.tables
              /\ last_call' = Call("create_tables", c.raised, None, None)
    /\ UNCHANGED <<environ, store, scope, open_sessions>>
    /\ UNCHANGED gwvars
    /\ UNCHANGED thvars

\* db_manager.drop_tables().
CallDropTables ==
    /\ Idle
    /\ \E fault \in Faults :
          LET d == drop_tables(db_manager, environ, tables, store, fault)
          IN  /\ EngineId(d.manager) <= MaxEngines
              /\ db_manager' = d.manager
              /\ tables' = d.tables
              /\ store' = d.store
              /\ last_call' = Call("drop_tables", d.raised, None, None)
    /\ UNCHANGED <<environ, scope, open_sessions>>
    /\ UNCHANGED gwvars
    /\ UNCHANGED thvars

\* A call has ended: the manager it leaves and the record of the call.
Returned(op, h) ==
    /\ EngineId(h.manager) <= MaxEngines
    /\ db_manager' = h.manager
    /\ last_call' = Call(op, h.raised, h.value, h.session)

\* db_manager.health_check().
CallHealthCheck ==
    /\ Idle
    /\ \E q \in SelectOutcomes, commit_fault \in Faults, rollback_fault \in Faults :
          Returned("health_check",
                   health_check(db_manager, environ, store, tables, q,
                                commit_fault, rollback_fault))
    /\ UNCHANGED <<environ, tables, store, scope, open_sessions>>
    /\ UNCHANGED gwvars
    /\ UNCHANGED thvars

\* db_manager.get_connection_info().
CallGetConnectionInfo ==
    /\ Idle
    /\ \E q \in InfoOutcomes, commit_fault \in Faults, rollback_fault \in Faults :
          Returned("get_connection_info",
                   get_connection_info(db_manager, environ, store, tables, q,
                                       commit_fault, rollback_fault))
    /\ UNCHANGED <<environ, tables, store, scope, open_sessions>>
    /\ UNCHANGED gwvars
    /\ UNCHANGED thvars

\* The caller has the value, or has handled the exception, of its last call.
CallReturn ==
    /\ last_call.op # "None"
    /\ last_call' = NoCall
    /\ UNCHANGED <<environ, db_manager, tables, store, scope, open_sessions>>
    /\ UNCHANGED gwvars
    /\ UNCHANGED thvars

DbNext ==
    \/ \E var \in EnvNames, value \in EnvValues : Setenv(var, value)
    \/ \E var \in EnvNames : Unsetenv(var)
    \/ CallInitialize
    \/ CallGetSession
    \/ ScopeEnter
    \/ \E obj \in Objects(scenario) : BodyAdd(obj)
    \/ BodyFlush
    \/ BodyQuery
    \/ ScopeExit
    \/ ScopeLeave
    \/ CallCreateTables
    \/ CallDropTables
    \/ CallHealthCheck
    \/ CallGetConnectionInfo
    \/ CallReturn

DbSpec == DbInit /\ [][DbNext]_vars

(***************************************************************************)
(* Threads on the one db_manager.  DatabaseManager takes no lock: a thread *)
(* can be switched out between any two statements of initialize and        *)
(* get_session, and every read or write of a field of db_manager is a step *)
(* of its own.  The thread's position is the line of database.py it is to  *)
(* execute next.                                                           *)
(***************************************************************************)
\* The methods a thread may call.
ThreadOps == {"initialize", "get_session"}

\* The environments of such a process: complete, or POSTGRES_DB left out.
ThreadEnvironments ==
    {FullEnv, [var \in {"POSTGRES_USER", "POSTGRES_PASSWORD"} |-> "emby"]}

ThreadInit ==
    /\ app = "app"
    /\ scenario = "threads"
    /\ GatewayIdle
    /\ environ \in ThreadEnvironments
    /\ db_manager = DatabaseManager
    /\ tables = FALSE
    /\ store = {}
    /\ scope = NoScope
    /\ open_sessions = 0
    /\ last_call = NoCall
    /\ threads = [t \in Threads |-> NoThread]
    /\ made = [engines |-> 0, factories |-> 0]

\* What a thread step leaves alone besides db_manager, threads and made.
ThreadFrame ==
    /\ UNCHANGED <<environ, tables, store, scope, open_sessions, last_call>>
    /\ UNCHANGED gwvars

\* Where initialize returns to: its caller, or line 111 of get_session.
AfterInitialize(op) == IF op = "get_session" THEN "get_session:111" ELSE "returned"

\* Thread t calls db_manager.initialize() or db_manager.get_session() (get_db
\* and get_db_session do the latter).
ThreadCall(t, op) ==
    /\ threads[t].pc = "idle"
    /\ threads' = [threads EXCEPT ![t] =
                     [NoThread EXCEPT !.op = op,
                                      !.pc = IF op = "get_session"
                                             THEN "get_session:109"
                                             ELSE "initialize:33"]]
    /\ UNCHANGED <<db_manager, made>>
    /\ ThreadFrame

\* get_session: if not self._initialized: self.initialize()
GetSessionCheck(t) ==
    /\ threads[t].pc = "get_session:109"
    /\ threads' = [threads EXCEPT ![t].pc = IF ~db_manager.initialized
                                            THEN "initialize:33"
                                            ELSE "get_session:111"]
    /\ UNCHANGED <<db_manager, made>>
    /\ ThreadFrame

\* initialize: if self._initialized: return
InitializeCheck(t) ==
    /\ threads[t].pc = "initialize:33"
    /\ threads' = [threads EXCEPT ![t].pc = IF db_manager.initialized
                                            THEN AfterInitialize(threads[t].op)
                                            ELSE "initialize:37"]
    /\ UNCHANGED <<db_manager, made>>
    /\ ThreadFrame

\* initialize: db_config = self._get_db_config()
InitializeConfig(t) ==
    /\ threads[t].pc = "initialize:37"
    /\ LET db_config == get_db_config(environ)
       IN  threads' = [threads EXCEPT
                         ![t].db_config = db_config,
                         ![t].raised = db_config.raised,
                         ![t].pc = IF db_config.raised # None THEN "raised"
                                   ELSE "initialize:40"]
    /\ UNCHANGED <<db_manager, made>>
    /\ ThreadFrame

\* initialize: self.engine = create_engine(...).  The new engine is visible to
\* the other threads only through the assignment.
InitializeEngine(t) ==
    /\ threads[t].pc = "initialize:40"
    /\ db_manager' = [db_manager EXCEPT
                        !.engine = create_engine(threads[t].db_config, @)]
    /\ made' = [made EXCEPT !.engines = @ + 1]
    /\ threads' = [threads EXCEPT ![t].pc = "initialize:62"]
    /\ ThreadFrame

\* initialize: sessionmaker(autocommit=False, autoflush=False,
\* bind=self.engine) is evaluated; self.engine is read now.
InitializeFactory(t) ==
    /\ threads[t].pc = "initialize:62"
    /\ threads' = [threads EXCEPT ![t].factory = sessionmaker(db_manager.engine),
                                  ![t].pc = "initialize:62=" ]
    /\ made' = [made EXCEPT !.factories = @ + 1]
    /\ UNCHANGED db_manager
    /\ ThreadFrame

\* initialize: self.SessionLocal = <the factory just made>
InitializeStoreFactory(t) ==
    /\ threads[t].pc = "initialize:62="
    /\ db_manager' = [db_manager EXCEPT !.SessionLocal = threads[t].factory]
    /\ threads' = [threads EXCEPT ![t].pc = "initialize:66"]
    /\ UNCHANGED made
    /\ ThreadFrame

\* initialize: self._initialized = True, and the method returns.
InitializeDone(t) ==
    /\ threads[t].pc = "initialize:66"
    /\ db_manager' = [db_manager EXCEPT !.initialized = TRUE]
    /\ threads' = [threads EXCEPT ![t].pc = AfterInitialize(threads[t].op)]
    /\ UNCHANGED made
    /\ ThreadFrame

\* get_session: return self.SessionLocal()
GetSessionReturn(t) ==
    /\ threads[t].pc = "get_session:111"
    /\ threads' = [threads EXCEPT ![t].session = Session(db_manager.SessionLocal),
                                  ![t].pc = "returned"]
    /\ UNCHANGED <<db_manager, made>>
    /\ ThreadFrame

\* The caller goes on: it closes the session it got, or handles the
\* ValueError.
ThreadReturn(t) ==
    /\ threads[t].pc \in {"returned", "raised"}
    /\ threads' = [threads EXCEPT ![t] = NoThread]
    /\ UNCHANGED <<db_manager, made>>
    /\ ThreadFrame

ThreadNext ==
    \E t \in Threads :
        \/ \E op \in ThreadOps : ThreadCall(t, op)
        \/ GetSessionCheck(t)
        \/ InitializeCheck(t)
        \/ InitializeConfig(t)
        \/ InitializeEngine(t)
        \/ InitializeFactory(t)
        \/ InitializeStoreFactory(t)
        \/ InitializeDone(t)
        \/ GetSessionReturn(t)
        \/ ThreadReturn(t)

ThreadSpec == ThreadInit /\ [][ThreadNext]_vars

(***************************************************************************)
(* The two other ways to a session: a FastAPI route that declares          *)
(* Depends(get_db), and code that calls get_db_session and owns what it    *)
(* gets.  The holder of the session may add, flush, query, commit and roll *)
(* back; scope.own lists the commit, rollback and close calls the holder   *)
(* made itself, scope.committed the rows its own commits wrote.            *)
(***************************************************************************)
\* The objects a route or a script adds: the first user of Objects and the
\* media item given only its required columns.
RouteObjects ==
    {obj \in Objects("data") :
        IF obj.cls = "User" THEN obj.kwargs.username = "test_user"
        ELSE obj.kwargs.type = "Episode"}

DepInit ==
    /\ app = "app"
    /\ scenario = "depends"
    /\ GatewayIdle
    /\ environ \in ThreadEnvironments
    /\ db_manager = DatabaseManager
    /\ tables \in BOOLEAN
    /\ store = {}
    /\ scope = NoScope
    /\ open_sessions = 0
    /\ last_call = NoCall
    /\ threads = [t \in Threads |-> NoThread]
    /\ made = [engines |-> 0, factories |-> 0]

\* The block opened by a session that get_session handed out or refused.
Handed(via, g) ==
    IF g.raised # None
    THEN [pc |-> "exited", session |-> None, how |-> "enter", body |-> None,
          raised |-> g.raised, via |-> via, own |-> <<>>, committed |-> {}]
    ELSE [pc |-> "body", session |-> g.session, how |-> "enter", body |-> None,
          raised |-> None, via |-> via, own |-> <<>>, committed |-> {}]

\* A request reaches a route with db: Session = Depends(get_db): the generator
\* runs up to its yield.
DependsEnter ==
    /\ Idle
    /\ LET g == get_session(db_manager, environ)
       IN  /\ db_manager' = g.manager
           /\ scope' = Handed("get_db", g)
           /\ open_sessions' = open_sessions + (IF g.raised = None THEN 1 ELSE 0)
    /\ UNCHANGED <<environ, tables, store, last_call>>
    /\ UNCHANGED gwvars
    /\ UNCHANGED thvars

\* session = get_db_session().
SessionEnter ==
    /\ Idle
    /\ LET g == get_db_session(db_manager, environ)
       IN  /\ db_manager' = g.manager
           /\ scope' = Handed("get_db_session", g)
           /\ open_sessions' = open_sessions + (IF g.raised = None THEN 1 ELSE 0)
    /\ UNCHANGED <<environ, tables, store, last_call>>
    /\ UNCHANGED gwvars
    /\ UNCHANGED thvars

\* The holder calls db.commit().
BodyCommit ==
    /\ scope.pc = "body"
    /\ Len(scope.own) < MaxCalls
    /\ \E ids \in [scope.session.new -> Uuids], fault \in Faults :
          LET c == commit(scope.session, store, tables, ids, fault)
          IN  /\ scope' = [scope EXCEPT
                             !.session = c.session,
                             !.own = Append(@, [call |-> "commit", raised |-> c.raised]),
                             !.committed = @ \cup (c.store \ store),
                             !.body = c.raised,
                             !.pc = IF c.raised = None THEN "body" ELSE "raising"]
              /\ store' = c.store
    /\ UNCHANGED <<environ, db_manager, tables, open_sessions, last_call>>
    /\ UNCHANGED gwvars
    /\ UNCHANGED thvars

\* The holder calls db.rollback().
BodyRollback ==
    /\ scope.pc = "body"
    /\ Len(scope.own) < MaxCalls
    /\ \E fault \in Faults :
          LET r == rollback(scope.session, fault)
          IN  scope' = [scope EXCEPT
                          !.session = r.session,
                          !.own = Append(@, [call |-> "rollback", raised |-> r.raised]),
                          !.body = r.raised,
                          !.pc = IF r.raised = None THEN "body" ELSE "raising"]
    /\ UNCHANGED <<environ, db_manager, tables, store, open_sessions, last_call>>
    /\ UNCHANGED gwvars
    /\ UNCHANGED thvars

\* The route is over, by its end or by an exception (its own, or one of a
\* call on the session): FastAPI resumes get_db, which runs to its end.
DependsExit ==
    /\ scope.pc \in {"body", "raising"}
    /\ scope.via = "get_db"
    /\ \E how \in {"end", "raise"}, e \in BodyExceptions,
          ids \in [scope.session.new -> Uuids] :
          /\ scope.pc = "raising" => how = "raise"
          /\ LET body == IF scope.pc = "raising" THEN scope.body
                         ELSE IF how = "raise" THEN e ELSE None
                 x == get_db(scope.session, body, store, tables, ids)
             IN  /\ scope' = [scope EXCEPT !.pc = "exited", !.session = x.session,
                                           !.how = how, !.body = body,
                                           !.raised = x.raised]
                 /\ store' = x.store
                 /\ open_sessions' =
                       open_sessions
                       - Cardinality({k \in DOMAIN x.session.calls :
                                        x.session.calls[k].call = "close"})
    /\ UNCHANGED <<environ, db_manager, tables, last_call>>
    /\ UNCHANGED gwvars
    /\ UNCHANGED thvars

\* The holder of a get_db_session session calls session.close() (the finally
\* clause of test_session_operations), after its work or after an exception.
SessionClose ==
    /\ scope.pc \in {"body", "raising"}
    /\ scope.via = "get_db_session"
    /\ scope' = [scope EXCEPT
                   !.pc = "exited",
                   !.session = close(@),
                   !.own = Append(@, [call |-> "close", raised |-> None]),
                   !.how = IF scope.pc = "raising" THEN "raise" ELSE "end",
                   !.raised = scope.body]
    /\ open_sessions' = open_sessions - 1
    /\ UNCHANGED <<environ, db_manager, tables, store, last_call>>
    /\ UNCHANGED gwvars
    /\ UNCHANGED thvars

\* While it holds a get_db_session session the caller calls
\* db_manager.health_check(), which opens and closes a session of its own.
HealthCheckWhileHeld ==
    /\ scope.pc = "body"
    /\ scope.via = "get_db_session"
    /\ last_call.op = "None"
    /\ \E q \in SelectOutcomes, commit_fault \in Faults, rollback_fault \in Faults :
          Returned("health_check",
                   health_check(db_manager, environ, store, tables, q,
                                commit_fault, rollback_fault))
    /\ UNCHANGED <<environ, tables, store, scope, open_sessions>>
    /\ UNCHANGED gwvars
    /\ UNCHANGED thvars

DepNext ==
    \/ DependsEnter
    \/ SessionEnter
    \/ \E obj \in RouteObjects : BodyAdd(obj)
    \/ BodyFlush
    \/ BodyQuery
    \/ BodyCommit
    \/ BodyRollback
    \/ DependsExit
    \/ SessionClose
    \/ ScopeLeave
    \/ HealthCheckWhileHeld
    \/ CallReturn

DepSpec == DepInit /\ [][DepNext]_vars



(***************************************************************************)
(* Properties.                                                             *)
(***************************************************************************)
InCycle(r) == pc[r] # "idle"

Proxied(r) == InCycle(r) /\ inbound[r].route \in Prefixes

Handled(r) == pc[r] \in {"returning", "done"}

ServiceName(r) == Get(Routes(app), inbound[r].route)

Registered(r) == ServiceName(r) \in Keys(SERVICES(app))

NotFound(r) ==
    HTTPException(404, "Service " \o ServiceName(r) \o " not found")

\* C1: a proxied request whose service name is not a key of SERVICES ends in
\* the 404 "not found" exception, and at no point of its cycle has a backend
\* request been issued for it.
C1_UnregisteredIs404WithoutForward ==
    \A r \in Reqs :
        (Proxied(r) /\ ~Registered(r)) =>
            /\ sent[r] = 0
            /\ target[r] = NoRequest
            /\ pc[r] # "waiting"
            /\ Handled(r) => result[r] = NotFound(r)
            /\ pc[r] = "done" => resp[r].status_code = 404

C1_Witness ==
    \E r \in Reqs :
        /\ pc[r] = "done"
        /\ Proxied(r)
        /\ ~Registered(r)
        /\ resp[r].status_code = 404
        /\ sent[r] = 0

\* C2: whenever the backend of a registered service responded, proxy_request
\* hands back a response with the backend's status code and the backend's body.
C2_RelayedVerbatim ==
    \A r \in Reqs :
        (Proxied(r) /\ Handled(r) /\ backend[r].kind = "response") =>
            /\ result[r].type = "JSONResponse"
            /\ result[r].status_code = backend[r].status_code
            /\ result[r].body = backend[r].content

\* The names the gateway itself writes on a response.
LoggingNames == {"x-correlation-id", "x-process-time"}

CorsNames(q) ==
    IF "origin" \in Keys(q.headers)
    THEN {"access-control-allow-origin", "access-control-allow-credentials", "vary"}
    ELSE {}

ResponseNames == {"content-length", "content-type"}

Relayable(o) == o.content = EmptyBody \/ ResponseJson(o.content).ok

Answered(r) ==
    /\ HasMiddleware(app)
    /\ pc[r] = "done"
    /\ Proxied(r)
    /\ backend[r].kind = "response"

C4_ForwardedUnchanged ==
    \A r \in Reqs :
        (Proxied(r) /\ target[r] # NoRequest) =>
            /\ target[r].method = inbound[r].method
            /\ target[r].headers = inbound[r].headers
            /\ target[r].content = inbound[r].body
            /\ target[r].url = Get(SERVICES(app), ServiceName(r))
                                 \o UrlPath(inbound[r].route, inbound[r].tail)

\* C5: for a registered service, a forward attempt that fails ends in 504
\* exactly when httpx raised a timeout and in 502 for every other failure; the
\* 404 of an unregistered service stays a 404.
C5_TimeoutIs504ElseIs502 ==
    \A r \in Reqs :
        (Proxied(r) /\ Handled(r)) =>
            /\ ~Registered(r) => result[r] = NotFound(r)
            /\ (Registered(r) /\ backend[r].kind = "raised") =>
                  IF backend[r].exc \in {"ReadTimeout", "ConnectTimeout"}
                  THEN result[r] = HTTPException(504, "Service timeout")
                  ELSE result[r] = HTTPException(502, "Service unavailable")
            /\ (Registered(r) /\ result[r].type = "HTTPException") =>
                  /\ result[r].status_code \in {502, 504}
                  /\ result[r].status_code = 504 =>
                        /\ backend[r].kind = "raised"
                        /\ backend[r].exc \in {"ReadTimeout", "ConnectTimeout"}
            /\ pc[r] = "done" => resp[r].status_code = result[r].status_code

C5_Witness ==
    \E r \in Reqs :
        /\ pc[r] = "done"
        /\ Proxied(r)
        /\ backend[r] = Raised("ConnectTimeout")
        /\ resp[r].status_code = 504

\* C6: proxy_request issues at most one backend request per inbound request,
\* never changes or repeats it whatever the outcome, and every proxied request
\* that was accepted ends in exactly one response with a status code.
C6_OneForwardOneResponse ==
    /\ [](\A r \in Reqs :
            /\ sent[r] <= 1
            /\ replies[r] <= 1
            /\ (Proxied(r) /\ Handled(r) /\ Registered(r)) => sent[r] = 1
            /\ (Proxied(r) /\ pc[r] = "done") =>
                  /\ replies[r] = 1
                  /\ resp[r].status_code \in 100 .. 599)
    /\ [][\A r \in Reqs :
            (target[r] # NoRequest /\ pc'[r] # "idle") =>
                (target'[r] = target[r] /\ sent'[r] = sent[r])]_vars
    /\ \A r \in Reqs :
          (Proxied(r) /\ pc[r] = "dispatch") ~> (pc[r] = "done")

C6_Witness ==
    \E r \in Reqs :
        /\ pc[r] = "done"
        /\ Proxied(r)
        /\ backend[r] = Raised("ConnectError")
        /\ sent[r] = 1
        /\ replies[r] = 1
        /\ resp[r].status_code = 502

\* C7: in both applications, the service name a proxy route passes to
\* proxy_request is a key of that application's SERVICES, and the request is
\* forwarded to the base URL registered under the route's prefix.
C7_RoutesReachOwnBackend ==
    \A r \in Reqs :
        Proxied(r) =>
            /\ Registered(r)
            /\ pc[r] \in {"waiting", "returning", "done"} =>
                  /\ sent[r] = 1
                  /\ target[r].url = Get(SERVICES(app), inbound[r].route)
                                       \o UrlPath(inbound[r].route, inbound[r].tail)

ServicesHealthDone(r) ==
    InCycle(r) /\ inbound[r].route = ServicesHealthRoute /\ Handled(r)

\* C8: whatever the probes gave (200, another status, a timeout, a connection
\* error), the report has "gateway": "healthy" and its "services" map has one
\* entry for each key of SERVICES and no other.
C8_ReportHasEveryService ==
    \A r \in Reqs :
        ServicesHealthDone(r) =>
            /\ result[r].type = "dict"
            /\ Keys(result[r].content) = {"gateway", "services"}
            /\ Get(result[r].content, "gateway") = "healthy"
            /\ LET services == Get(result[r].content, "services")
               IN  /\ Keys(services) = Keys(SERVICES(app))
                   /\ Len(services) = Cardinality(Keys(SERVICES(app)))
                   /\ \A i \in DOMAIN services :
                         Get(services[i][2], "status") \in {"healthy", "unhealthy"}

C8_Witness ==
    \E r \in Reqs :
        /\ ServicesHealthDone(r)
        /\ pc[r] = "done"
        /\ {probe_log[r][i].outcome : i \in DOMAIN probe_log[r]} = ProbeOutcomes
        /\ resp[r].status_code = 200

\* C9: the report is returned only when a probe has been issued for every
\* service, in the order of SERVICES, and each has resolved, failed probes
\* included; and a health check that was started does return.
C9_ReportAfterAllProbes ==
    /\ [](\A r \in Reqs :
            ServicesHealthDone(r) =>
                /\ result[r].type = "dict"
                /\ Len(probe_log[r]) = Len(SERVICES(app))
                /\ \A i \in DOMAIN probe_log[r] :
                      /\ probe_log[r][i].service = SERVICES(app)[i][1]
                      /\ probe_log[r][i].outcome # NoOutcome)
    /\ \A r \in Reqs :
          (InCycle(r) /\ inbound[r].route = ServicesHealthRoute
             /\ pc[r] = "dispatch") ~> (pc[r] = "done")

C9_Witness ==
    \E r \in Reqs :
        /\ ServicesHealthDone(r)
        /\ pc[r] = "done"
        /\ probe_log[r][1].outcome.kind = "raised"
        /\ probe_log[r][2].outcome.kind = "raised"
        /\ probe_log[r][Len(probe_log[r])].outcome.kind = "response"

\* All that belongs to one request.
SlotOf(r) ==
    <<pc[r], inbound[r], cid[r], target[r], sent[r], backend[r], result[r],
      resp[r], replies[r], health_status[r], probe_i[r], probe_log[r]>>

\* C10: while a request is suspended in proxy_request, every other request can
\* take its next step (be accepted, be forwarded, get its backend's answer, be
\* answered), and no step of one request changes anything of another.
C10_WaitingBlocksNobody ==
    /\ [](\A r1 \in Slots(scenario) : \A r2 \in Slots(scenario) \ {r1} :
            pc[r1] = "waiting" =>
                /\ pc[r2] = "idle" => ENABLED Accept(r2)
                /\ pc[r2] = "dispatch" =>
                      ENABLED (ProxyCall(r2) \/ HealthHandler(r2))
                /\ pc[r2] = "waiting" => ENABLED ProxyResolve(r2)
                /\ pc[r2] = "returning" => ENABLED Respond(r2)
                /\ pc[r2] = "done" => ENABLED Complete(r2))
    /\ [][Cardinality({r \in Reqs : SlotOf(r)' # SlotOf(r)}) <= 1]_vars

C10_Witness ==
    /\ pc[1] = "waiting"
    /\ pc[2] = "done"
    /\ Proxied(2)
    /\ sent[2] = 1
    /\ resp[2].status_code = 200

(***************************************************************************)
(* Properties of the persistence layer.                                    *)
(***************************************************************************)
\* The with-block has been left and the generator of session_scope has ended.
Exited == scope.pc = "exited" /\ scope.session # None

\* The positions at which a session was asked to commit, roll back or close.
CallsOf(s, name) == {k \in DOMAIN s.calls : s.calls[k].call = name}

\* What session.commit() raised, None if it returned or was not called.
CommitRaised(s) ==
    IF \E k \in CallsOf(s, "commit") : s.calls[k].raised # None
    THEN s.calls[CHOOSE k \in CallsOf(s, "commit") : s.calls[k].raised # None].raised
    ELSE None

\* C11: a with-block that ends or returns is committed and not rolled back;
\* when the block or the commit raises, the session is rolled back and the
\* caller gets that same exception.
C11_CommitOrRollbackAndReraise ==
    Exited =>
        IF scope.body = None /\ CommitRaised(scope.session) = None
        THEN /\ CallsOf(scope.session, "commit") # {}
             /\ CallsOf(scope.session, "rollback") = {}
             /\ scope.raised = None
        ELSE /\ CallsOf(scope.session, "rollback") # {}
             /\ scope.raised = IF scope.body # None THEN scope.body
                               ELSE CommitRaised(scope.session)

\* C12: the session of a scope is closed exactly once on every way out, after
\* the commit or rollback of the scope, and no session of a scope stays open
\* once the scope is over.
C12_ClosedOnceAndLast ==
    /\ Exited =>
          /\ CallsOf(scope.session, "close") = {Len(scope.session.calls)}
          /\ open_sessions = 0
    /\ scope.pc \in {"body", "raising"} =>
          /\ CallsOf(scope.session, "close") = {}
          /\ open_sessions = 1
    /\ scope.session = None => open_sessions = 0

\* The commit failed, the rollback failed, and the session was closed.
C12_Witness ==
    /\ Exited
    /\ Len(scope.session.calls) = 3
    /\ scope.session.calls[1].call = "commit"
    /\ scope.session.calls[1].raised # None
    /\ scope.session.calls[2].call = "rollback"
    /\ scope.session.calls[2].raised # None
    /\ scope.session.calls[3].call = "close"
    /\ open_sessions = 0

\* The step is one of a with-block: entering it, a statement of its body,
\* leaving it, going on after it.
ScopeStep == scope.pc # "idle" \/ scope'.pc # "idle"

\* The step ends a with-block whose scope raises nothing.
NormalExit ==
    /\ scope.pc \in {"body", "raising"}
    /\ scope'.pc = "exited"
    /\ scope'.raised = None

\* C13: a scope that raises leaves the committed rows as they were; a scope
\* that exits normally adds the rows of the objects added in it and nothing
\* else, and no other step of a scope changes the committed rows.
C13_RaisedScopeLeavesStore ==
    [][ScopeStep =>
          IF NormalExit
          THEN /\ store \subseteq store'
               /\ \A obj \in scope.session.added :
                     \E row \in store' \ store : row = ToRow(obj, row.id)
               /\ \A row \in store' \ store :
                     \E obj \in scope.session.added : row = ToRow(obj, row.id)
          ELSE store' = store]_vars

\* A scope inserted rows, raised, and none of its rows is committed.
C13_Witness ==
    /\ Exited
    /\ scope.raised # None
    /\ scope.session.inserted # {}
    /\ scope.session.inserted \cap store = {}
    /\ store # {}

\* C14: an initialized manager stays initialized and keeps its engine and its
\* session factory, whatever is called on it; initialize on it does nothing.
C14_InitializedForGood ==
    [][db_manager.initialized => db_manager' = db_manager]_vars

\* initialize was called on an initialized manager.
C14_Witness ==
    /\ last_call.op = "initialize"
    /\ last_call.before.initialized
    /\ last_call.kind = "returned"
    /\ db_manager = last_call.before
    /\ db_manager.engine # None

\* The required names that are unset or empty in an environment.
Absent(env) == {var \in EnvNames : var \notin DOMAIN env \/ env[var] = ""}

\* C15: initialize on an uninitialized manager, with a required name unset or
\* empty, raises a ValueError that names the missing names, all of them and
\* no other, and leaves the manager as constructed; with every name set it
\* succeeds, also after a failed attempt.
C15_MissingNamesReported ==
    (last_call.op = "initialize" /\ ~last_call.before.initialized) =>
        IF Absent(environ) # {}
        THEN /\ last_call.kind = "raised"
             /\ last_call.value.type = "ValueError"
             /\ {last_call.value.names[k] : k \in DOMAIN last_call.value.names}
                   = Absent(environ)
             /\ Len(last_call.value.names) = Cardinality(Absent(environ))
             /\ last_call.value.message =
                   "Missing required environment variables: "
                   \o Join(last_call.value.names)
                   \o ". Please ensure these are set (via Doppler or environment)."
             /\ db_manager = DatabaseManager
        ELSE /\ last_call.kind = "returned"
             /\ db_manager.initialized
             /\ db_manager.engine # None
             /\ db_manager.SessionLocal # None

\* initialize failed with one name unset, one empty and one set.
C15_Witness ==
    /\ last_call.op = "initialize"
    /\ last_call.kind = "raised"
    /\ Cardinality(Absent(environ)) = 2
    /\ \E var \in DOMAIN environ : environ[var] = ""
    /\ \E var \in DOMAIN environ : environ[var] # ""
    /\ ~db_manager.initialized

\* C16: missing configuration is found when the process starts, so no later
\* get_session, session_scope or health_check is where it first shows: none
\* raises the configuration error and none runs into it and hides it.
C16_ConfigErrorOnlyAtStartup ==
    /\ last_call.op = "get_session" =>
          ~(last_call.kind = "raised" /\ last_call.value.type = "ValueError")
    /\ last_call.op = "health_check" =>
          ~(~last_call.before.initialized /\ Absent(environ) # {})
    /\ (scope.pc = "exited" /\ scope.session = None) =>
          scope.raised.type # "ValueError"

\* The session of a probe, if it had one, was closed once, at the end.
ProbeSessionClosed(session) ==
    session # None => CallsOf(session, "close") = {Len(session.calls)}

\* C17: health_check returns a boolean and raises nothing, however the query,
\* the commit and the rollback end: True when get_session gave a session,
\* SELECT 1 yielded 1 and the scope committed, False otherwise; the session
\* it used is closed.
C17_HealthCheckIsBoolean ==
    /\ \A q \in SelectOutcomes, commit_fault \in Faults, rollback_fault \in Faults :
          LET h == health_check(db_manager, environ, store, tables, q,
                                commit_fault, rollback_fault)
              ok == /\ db_manager.initialized \/ Absent(environ) = {}
                    /\ q.raised = None
                    /\ q.scalar = 1
                    /\ ~commit_fault
          IN  /\ h.raised = None
              /\ h.value = ok
              /\ ProbeSessionClosed(h.session)
              /\ ok => CallsOf(h.session, "commit") # {}
    /\ last_call.op = "health_check" =>
          /\ last_call.kind = "returned"
          /\ last_call.value \in BOOLEAN
          /\ ProbeSessionClosed(last_call.session)
          /\ open_sessions = 0

\* health_check returned False because its commit failed, its session closed.
C17_Witness ==
    /\ last_call.op = "health_check"
    /\ last_call.kind = "returned"
    /\ last_call.value = FALSE
    /\ last_call.session # None
    /\ CommitRaised(last_call.session) # None
    /\ CallsOf(last_call.session, "close") # {}

\* C18: get_connection_info on an uninitialized manager answers
\* not_initialized, creates no engine and opens no session; on an initialized
\* one it answers connected with the three counts, or error when the probe
\* fails; it raises nothing.
C18_ConnectionInfo ==
    /\ \A q \in InfoOutcomes, commit_fault \in Faults, rollback_fault \in Faults :
          LET g == get_connection_info(db_manager, environ, store, tables, q,
                                       commit_fault, rollback_fault)
          IN  /\ g.raised = None
              /\ IF ~db_manager.initialized
                 THEN /\ g.value = [status |-> "not_initialized"]
                      /\ g.manager = db_manager
                      /\ g.session = None
                 ELSE /\ g.manager = db_manager
                      /\ ProbeSessionClosed(g.session)
                      /\ IF q.raised = None /\ ~commit_fault
                         THEN /\ g.value.status = "connected"
                              /\ g.value.active_connections = q.connection_count
                              /\ g.value.pool_size = PoolSize
                              /\ g.value.checked_out_connections = q.checkedout
                         ELSE g.value.status = "error"
    /\ last_call.op = "get_connection_info" =>
          /\ last_call.kind = "returned"
          /\ db_manager = last_call.before
          /\ open_sessions = 0
          /\ ~last_call.before.initialized =>
                /\ last_call.value = [status |-> "not_initialized"]
                /\ last_call.session = None
                /\ db_manager.engine = None

\* get_connection_info answered not_initialized although the environment is
\* complete.
C18_Witness ==
    /\ last_call.op = "get_connection_info"
    /\ last_call.value.status = "not_initialized"
    /\ Absent(environ) = {}
    /\ ~db_manager.initialized

\* No two rows of a table share their external identifier.
UniqueExternalIds(rows) ==
    \A r1 \in rows, r2 \in rows :
        (r1.table = r2.table /\ ExternalId(r1) = ExternalId(r2)) => r1 = r2

\* The objects a with-block added hold an external identifier twice, or one
\* that a committed row has.
AddsDuplicate(s, rows) ==
    \E o1 \in s.added :
        \/ \E o2 \in s.added \ {o1} :
              /\ o1.cls = o2.cls
              /\ ExternalId(ToRow(o1, "")) = ExternalId(ToRow(o2, ""))
        \/ \E row \in rows :
              /\ row.table = TableName(o1.cls)
              /\ ExternalId(row) = ExternalId(ToRow(o1, ""))

\* C19: the committed rows never hold an external identifier twice, and a
\* with-block that added a duplicate raises and commits nothing.
C19_ExternalIdsUnique ==
    [][/\ UniqueExternalIds(store')
       /\ (/\ scope.pc \in {"body", "raising"}
           /\ scope'.pc = "exited"
           /\ AddsDuplicate(scope.session, store))
          => (scope'.raised # None /\ store' = store)]_vars

\* A with-block added a new object and a duplicate of a committed one; the
\* scope raised the constraint violation and committed neither.
C19_Witness ==
    /\ Exited
    /\ scope.raised = IntegrityError
    /\ Cardinality(scope.session.added) = 2
    /\ AddsDuplicate(scope.session, store)
    /\ \E obj \in scope.session.added :
          \A row \in store : ExternalId(row) # ExternalId(ToRow(obj, ""))
    /\ UniqueExternalIds(store)

\* Every keyword the constructor of obj was given is an attribute of the
\* loaded instance with that value.
SuppliedFieldsEqual(obj, instance) ==
    /\ instance.cls = obj.cls
    /\ \A column \in DOMAIN obj.kwargs :
          instance[column] = IF column \in Nullable THEN <<obj.kwargs[column]>>
                             ELSE obj.kwargs[column]

HandedOut == {threads[t].session : t \in {u \in Threads : threads[u].session # None}}

\* C21: when several threads call initialize or get_session on the same
\* uninitialized DatabaseManager at the same time, in every interleaving the
\* engine and the session factory are created exactly once (never a second
\* one, and both exist once _initialized is set), and every session handed
\* out is bound to that one engine, the one db_manager holds.
C21_CreatedOnceUnderThreads ==
    /\ made.engines <= 1
    /\ made.factories <= 1
    /\ db_manager.initialized => made.engines = 1 /\ made.factories = 1
    /\ \A session \in HandedOut : session.bind = EngineId(db_manager)
    /\ \A s1 \in HandedOut, s2 \in HandedOut : s1.bind = s2.bind

(***************************************************************************)
(* Properties of get_db and get_db_session.                                *)
(***************************************************************************)
CloseCall == [call |-> "close", raised |-> None]

\* The rows the holder's session inserted and none of its own commits wrote.
Uncommitted == scope.session.inserted \ scope.committed

\* Whether the holder itself has closed the session.
ClosedByHolder == \E k \in DOMAIN scope.own : scope.own[k] = CloseCall

\* C22: get_db closes the session it handed out exactly once on every exit
\* path of the route, as the last call on it, and adds no commit and no
\* rollback of its own to those the route made, so what the route changed
\* without committing is discarded and is not in the store; on a session of
\* get_db_session the only calls are the holder's own, and it counts as open
\* until the holder closes it, whatever the manager is asked to do meanwhile.
C22_DependencyOnlyCloses ==
    scope.session # None =>
        IF scope.via = "get_db"
        THEN IF scope.pc = "exited"
             THEN /\ scope.session.calls = Append(scope.own, CloseCall)
                  /\ Uncommitted \cap store = {}
                  /\ scope.session.flushed = {} /\ scope.session.new = {}
                  /\ open_sessions = 0
             ELSE /\ scope.session.calls = scope.own
                  /\ open_sessions = 1
        ELSE /\ scope.session.calls = scope.own
             /\ open_sessions = (IF ClosedByHolder THEN 0 ELSE 1)
             /\ scope.pc = "exited" <=> ClosedByHolder

\* A route committed one object, added and flushed another and raised: get_db
\* has closed the session, and the second row was never committed.
C22_Witness ==
    /\ scope.session # None
    /\ scope.via = "get_db"
    /\ scope.pc = "exited"
    /\ scope.how = "raise"
    /\ scope.committed # {}
    /\ Uncommitted # {}
    /\ scope.session.calls = Append(scope.own, CloseCall)

(***************************************************************************)
(* Correlation ids.                                                        *)
(***************************************************************************)
\* The response of request r went out through logging_middleware.
Stamped(r) == HasMiddleware(app) /\ pc[r] = "done"

\* The X-Correlation-ID lines of a response.
CorrelationIds(response) == ValuesOf(response.headers, "x-correlation-id")

====
